---- MODULE Spec2Model ----
(***************************************************************************)
(* Class-level event dispatch of jii's base Event class: the static        *)
(* registry Event._events (event name -> ordered list of bindings          *)
(* [cls, handler, data]) and the static operations normalizeHandler, on,   *)
(* off, hasHandlers and trigger.                                           *)
(*                                                                         *)
(* Spec vocabulary -> source: attach = Event.on (prepend = !isAppend),     *)
(* detach = Event.off, hasHandlers = Event.hasHandlers,                    *)
(* trigger = Event.trigger, type handle = a class (a constructor function),*)
(* parent() = Object.getPrototypeOf(cls).                                  *)
(***************************************************************************)
EXTENDS Integers, Sequences, FiniteSets, TLC

VARIABLES events, last

vars == <<events, last>>

\* ------------------------------------------------------------------------
\* Bounds and input alphabets
\* ------------------------------------------------------------------------

\* Most bindings the registry holds in total (guards Event.on).
MaxBindings == 2

\* Classes of the modelled program: B extends A, C extends B, D is a root.
Classes == {"A", "B", "C", "D"}

EventNames == {"e"}

\* JavaScript's null / undefined, as values of the string-typed fields.
Null == "null"
Undefined == "undefined"

\* ------------------------------------------------------------------------
\* The JavaScript object model the code relies on
\* ------------------------------------------------------------------------

\* `class B extends A`, `class C extends B`; A and D extend nothing.
Extends(c) ==
    CASE c = "C" -> "B"
      [] c = "B" -> "A"
      [] OTHER -> Null

\* (Variant in which the chain does not end: Object.prototype is its own
\* prototype, to show C20 depends on the chain reaching null.)
getPrototypeOf_cyclic(cls) ==
    CASE cls \in Classes /\ Extends(cls) # Null -> Extends(cls)
      [] cls \in Classes /\ Extends(cls) = Null -> "FunctionPrototype"
      [] cls = "Function" -> "FunctionPrototype"
      [] OTHER -> "ObjectPrototype"

\* Object.getPrototypeOf on a class: the class it extends; a class without
\* `extends` has Function.prototype, whose prototype is Object.prototype,
\* whose prototype is null.
getPrototypeOf(cls) ==
    CASE cls \in Classes /\ Extends(cls) # Null -> Extends(cls)
      [] cls \in Classes /\ Extends(cls) = Null -> "FunctionPrototype"
      [] cls = "Function" -> "FunctionPrototype"
      [] cls = "FunctionPrototype" -> "ObjectPrototype"
      [] OTHER -> Null

\* A trigger target: an instance of a class, or the class itself.
Instance(c) == [kind |-> "instance", cls |-> c]
ClassRef(c) == [kind |-> "class", cls |-> c]
NoObject == [kind |-> "null", cls |-> Null]

Targets == {Instance(c) : c \in Classes} \cup {ClassRef(c) : c \in Classes}

\* lodash isObject: typeof value is 'object' or 'function', and value != null.
isObject(x) == x.kind \in {"instance", "class", "function"}

\* Values other than objects of the modelled classes: a function, a
\* number, a string.
FnValue(f) == [kind |-> "function", fn |-> f]
NumberValue(n) == [kind |-> "number", value |-> n]
StringValue(t) == [kind |-> "string", value |-> t]

\* lodash isFunction and isString.
isFunction(x) == x.kind \in {"function", "class"}
isString(x) == x.kind = "string"

\* x.constructor: the class of an instance; Function for a class, which is
\* itself a function object.
constructorOf(x) == IF x.kind = "instance" THEN x.cls ELSE "Function"

\* ------------------------------------------------------------------------
\* Event record (Event.preInit)
\* ------------------------------------------------------------------------

\* `new Event()`: data, sender and name are null, handled is false.
\* (params = {} is never read or written by the dispatch code.)
NewEvent == [kind |-> "Event", name |-> Null, sender |-> NoObject,
             data |-> Null, handled |-> FALSE]

\* What a caller passes when it passes no event (`event || null`).
NoEvent == [kind |-> "null"]

\* ------------------------------------------------------------------------
\* Handlers
\* ------------------------------------------------------------------------

\* Functions of the program that are used as event handlers.
\*   h1, h2   return without touching the event
\*   hStop    sets event.handled = true
\*   hThrow   throws
Functions == {"h1", "h2", "hStop", "hThrow"}

\* Raw handler representations a caller can pass to on / off.
NullHandler == [form |-> "null"]
Fn(f) == [form |-> "fn", fn |-> f]
Normalized(ctx, cb) == [form |-> "norm", context |-> ctx, callback |-> cb]
PairFnObj(f, ctx) == [form |-> "pairFnObj", fn |-> f, ctx |-> ctx]
PairOther(a, b) == [form |-> "pairOther", first |-> a, second |-> b]
MethodName(n) == [form |-> "string", name |-> n]
OtherValue == [form |-> "other"]
Falsy(v) == [form |-> "falsy", value |-> v]
ArrayOf(elems) == [form |-> "array", elems |-> elems]
PlainValue(v) == [form |-> "other", value |-> v]

\* Event[name] for a bare method name: a static method of Event, else
\* undefined.
StaticMember(n) ==
    IF n \in {"on", "off", "hasHandlers", "trigger", "normalizeHandler"}
    THEN n ELSE Undefined

\* Jii.namespace(name): the class registered under a type name.
namespace(name) == ClassRef(name.value)

\* handler[0][handler[1]]: reading a property of null or undefined raises
\* a TypeError; the modelled objects, classes, functions and numbers have
\* no property under the keys used, so the value read is undefined.
memberOf(obj, key) ==
    IF obj.kind \in {"null", "undefined"}
    THEN [threw |-> TRUE, value |-> Undefined]
    ELSE [threw |-> FALSE, value |-> Undefined]

\* The branch of normalizeHandler for an array of length 2.
normalizePair(a, b) ==
    IF isFunction(a) /\ isObject(b)
    THEN [threw |-> FALSE, handler |-> Normalized(b, IF a.kind = "function" THEN a.fn ELSE a)]
    ELSE LET first == IF isString(a) THEN namespace(a) ELSE a
             m == memberOf(first, b)
         IN  IF m.threw THEN [threw |-> TRUE, handler |-> NullHandler]
             ELSE [threw |-> FALSE, handler |-> Normalized(first, m.value)]

\* Event.normalizeHandler(handler, context): the normalized handler, null
\* for a falsy input, or an exception (threw).
normalizeHandler(handler, context) ==
    CASE handler.form \in {"null", "falsy"} ->
            [threw |-> FALSE, handler |-> NullHandler]
      [] handler.form = "array" /\ Len(handler.elems) = 2 ->
            normalizePair(handler.elems[1], handler.elems[2])
      [] handler.form = "norm" ->
            [threw |-> FALSE, handler |-> handler]
      [] handler.form = "pairFnObj" ->
            [threw |-> FALSE, handler |-> Normalized(handler.ctx, handler.fn)]
      [] handler.form = "pairOther" ->
            [threw |-> FALSE, handler |-> Normalized(handler.first, Undefined)]
      [] handler.form = "string" ->
            [threw |-> FALSE,
             handler |-> Normalized(context, StaticMember(handler.name))]
      [] handler.form = "fn" ->
            [threw |-> FALSE, handler |-> Normalized(context, handler.fn)]
      [] OTHER ->
            [threw |-> TRUE, handler |-> NullHandler]

\* ------------------------------------------------------------------------
\* Registry: Event._events, a map from event name to a list of bindings
\* ------------------------------------------------------------------------

\* `this._events[name]` is truthy: a list (even an empty one) exists.
HasList(ev, name) == name \in DOMAIN ev

\* `this._events[name] || []`
ListOf(ev, name) == IF HasList(ev, name) THEN ev[name] ELSE << >>

\* `this._events[name] = list`
Put(ev, name, list) ==
    [n \in (DOMAIN ev) \cup {name} |-> IF n = name THEN list ELSE ev[n]]

\* The binding [cls, handler, data] stored by on.
Binding(cls, handler, data) == [cls |-> cls, handler |-> handler, data |-> data]

\* `list.find(item => item[0] === cls)` is truthy.
findClass(list, cls) == \E i \in 1..Len(list) : list[i].cls = cls

\* `x || null` for the data argument.
orNull(x) == IF x \in {Undefined, Null, ""} THEN Null ELSE x

\* `_isUndefined(isAppend) ? true : isAppend`, then its truthiness.
appendMode(isAppend) == isAppend = Undefined \/ isAppend = "true"

\* (Variant without the duplicate test, to show C8 depends on it.)
appendBinding_always(list, item) == Append(list, item)

\* The append branch of on: push unless a binding of the class is present.
appendBinding(list, item) ==
    IF findClass(list, item.cls) THEN list ELSE Append(list, item)

\* (Variant that pushes instead, to show C9 depends on the unshift.)
prependBinding_push(list, item) == Append(list, item)

\* The else branch of on: unshift.
prependBinding(list, item) == <<item>> \o list

\* Event.on(cls, name, handler, data, isAppend)
on(ev, cls, name, handler, data, isAppend) ==
    LET nh == normalizeHandler(handler, Null)
        item == Binding(cls, nh.handler, orNull(data))
    IN  IF nh.threw THEN [threw |-> TRUE, events |-> ev]
        ELSE IF appendMode(isAppend) \/ ~HasList(ev, name)
        THEN [threw |-> FALSE,
              events |-> Put(ev, name, appendBinding(ListOf(ev, name), item))]
        ELSE [threw |-> FALSE,
              events |-> Put(ev, name, prependBinding(ev[name], item))]

\* The filter predicate of off: the items it keeps.  Reading
\* item[1].callback of a binding whose handler is null is a TypeError.
offKeeps(item, cls, handler) ==
    item.cls # cls /\ (handler.form = "null"
                       \/ item.handler.callback = handler.callback)

offReadsNull(item, cls, handler) ==
    item.cls # cls /\ handler.form # "null" /\ item.handler.form = "null"

\* Event.off(cls, name, handler)
off(ev, cls, name, handler) ==
    LET nh == normalizeHandler(handler, Null)
    IN  IF nh.threw THEN [threw |-> TRUE, ret |-> FALSE, events |-> ev]
        ELSE IF ~HasList(ev, name)
        THEN [threw |-> FALSE, ret |-> FALSE, events |-> ev]
        ELSE LET list == ev[name]
                 firstBad == {i \in 1..Len(list) :
                                 offReadsNull(list[i], cls, nh.handler)}
                 kept == SelectSeq(list,
                            LAMBDA item : offKeeps(item, cls, nh.handler))
             IN  IF firstBad # {}
                 THEN [threw |-> TRUE, ret |-> FALSE, events |-> ev]
                 ELSE [threw |-> FALSE, ret |-> Len(kept) # Len(list),
                       events |-> Put(ev, name, kept)]

\* (Variant that does not climb the chain, to show C10 depends on it.)
hasHandlersFrom_ownOnly(list, cls) == findClass(list, cls)

\* Event.hasHandlers(cls, name): the loop over the prototype chain.
RECURSIVE hasHandlersFrom(_, _)
hasHandlersFrom(list, cls) ==
    IF findClass(list, cls) THEN TRUE
    ELSE LET p == getPrototypeOf(cls)
         IN  IF p = Null THEN FALSE ELSE hasHandlersFrom(list, p)

hasHandlers(ev, cls, name) ==
    IF ~HasList(ev, name) THEN FALSE ELSE hasHandlersFrom(ev[name], cls)

\* ------------------------------------------------------------------------
\* Dispatch: Event.trigger
\* ------------------------------------------------------------------------

\* What a handler function does when it is called with the event; calling
\* something that is not a function is a TypeError.
callHandler(fn, event) ==
    CASE fn = "hStop" ->
            [threw |-> FALSE, event |-> [event EXCEPT !.handled = TRUE]]
      [] fn = "hThrow" ->
            [threw |-> TRUE, event |-> event]
      [] fn \in Functions \ {"hStop", "hThrow"} ->
            [threw |-> FALSE, event |-> event]
      [] OTHER ->
            [threw |-> TRUE, event |-> event]

\* (Variant without the class test, to show C1 depends on it.)
matches_any(item, cls) == TRUE

\* `item[0] !== cls` is false: the binding belongs to the level scanned.
matches(item, cls) == item.cls = cls

\* (Variant that ignores the flag, to show C2 depends on it.)
handledAfter_never(event) == FALSE

\* `isHandled = event.handled` after a handler has returned.
handledAfter(event) == event.handled

\* The body of the forEach callback for a binding that is not skipped:
\* set event.data, call the handler, read event.handled.  The log records
\* each call: the index and binding, the level scanned, the event as the
\* handler received it and the handled flag it left.
invokeItem(item, i, cls, st) ==
    LET ev1 == [st.event EXCEPT !.data = item.data]
    IN  IF item.handler.form = "null"
        THEN [st EXCEPT !.event = ev1, !.threw = TRUE]
        ELSE LET r == callHandler(item.handler.callback, ev1)
             IN  [event |-> r.event,
                  threw |-> r.threw,
                  isHandled |-> IF r.threw THEN st.isHandled
                                ELSE handledAfter(r.event),
                  log |-> Append(st.log,
                                 [index |-> i, item |-> item, level |-> cls,
                                  receiver |-> item.handler.context,
                                  seen |-> ev1,
                                  handled |-> r.event.handled,
                                  threw |-> r.threw])]

\* (Variant that swallows a handler's exception and goes on with the next
\* binding, to show C14 depends on the exception leaving the loop.)
RECURSIVE forEach_catching(_, _, _, _)
forEach_catching(list, i, cls, st) ==
    IF i > Len(list) THEN st
    ELSE IF st.isHandled \/ ~matches(list[i], cls)
    THEN forEach_catching(list, i + 1, cls, st)
    ELSE forEach_catching(list, i + 1, cls,
                          invokeItem(list[i], i, cls, [st EXCEPT !.threw = FALSE]))

\* `this._events[name].forEach(item => ...)` from index i on; an exception
\* ends the loop.
RECURSIVE forEach(_, _, _, _)
forEach(list, i, cls, st) ==
    IF i > Len(list) \/ st.threw THEN st
    ELSE IF st.isHandled \/ ~matches(list[i], cls)
    THEN forEach(list, i + 1, cls, st)
    ELSE forEach(list, i + 1, cls, invokeItem(list[i], i, cls, st))

\* (Variant that scans the ancestors first, to show C3 depends on the
\* order of the loop.)
RECURSIVE walk_rootFirst(_, _, _)
walk_rootFirst(list, cls, st) ==
    LET p == getPrototypeOf(cls)
        s1 == IF p = Null THEN st ELSE walk_rootFirst(list, p, st)
    IN  IF s1.threw \/ s1.isHandled THEN s1
        ELSE forEach(list, 1, cls, [s1 EXCEPT !.isHandled = FALSE])

\* One pass of the body of the `while (true)` loop of trigger: `isHandled
\* = false`, then the forEach over the list for the level cls.
walkLevel(list, cls, st) == forEach(list, 1, cls, [st EXCEPT !.isHandled = FALSE])

\* The loop is left after the pass s2 over level cls: by an exception, by
\* `if (isHandled) return`, or by `if (!cls) break` on the prototype.
walkDone(cls, s2) == s2.threw \/ s2.isHandled \/ getPrototypeOf(cls) = Null

\* The `while (true)` loop of trigger: scan one level, stop when handled,
\* else go on with the prototype of cls until there is none.
RECURSIVE walk(_, _, _)
walk(list, cls, st) ==
    LET s2 == walkLevel(list, cls, st)
    IN  IF walkDone(cls, s2) THEN s2 ELSE walk(list, getPrototypeOf(cls), s2)

\* `if (_isObject(cls) && event.sender === null) event.sender = cls`
withSender(event, target) ==
    IF isObject(target) /\ event.sender = NoObject
    THEN [event EXCEPT !.sender = target] ELSE event

\* `if (_isObject(cls)) cls = cls.constructor`: the level the walk starts at.
startClass(target) ==
    IF isObject(target) THEN constructorOf(target) ELSE target.cls

\* (Variant that leaves handled as the caller passed it, to show C12
\* depends on the reset.)
resetEvent_keepHandled(event, name) == [event EXCEPT !.name = name]

\* `event.handled = false; event.name = name`
resetEvent(event, name) == [event EXCEPT !.handled = FALSE, !.name = name]

\* (Variant that resets the caller's record before the test for a list, to
\* show C16 depends on the early return.)
trigger_resetFirst(ev, target, name, event) ==
    LET e0 == IF event.kind = "null" THEN NewEvent ELSE event
        e1 == resetEvent(e0, name)
        e2 == withSender(e1, target)
    IN  IF ~HasList(ev, name)
        THEN [outcome |-> "noList", event |-> e2, log |-> << >>]
        ELSE LET st == walk(ev[name], startClass(target),
                            [event |-> e2, threw |-> FALSE,
                             isHandled |-> FALSE, log |-> << >>])
             IN  [outcome |-> IF st.threw THEN "threw" ELSE "returned",
                  event |-> st.event, log |-> st.log]

\* Event.trigger(cls, name, event)
trigger(ev, target, name, event) ==
    IF ~HasList(ev, name)
    THEN [outcome |-> "noList", event |-> event, log |-> << >>]
    ELSE LET e0 == IF event.kind = "null" THEN NewEvent ELSE event
             e1 == resetEvent(e0, name)
             e2 == withSender(e1, target)
             st == walk(ev[name], startClass(target),
                        [event |-> e2, threw |-> FALSE, isHandled |-> FALSE,
                         log |-> << >>])
         IN  [outcome |-> IF st.threw THEN "threw" ELSE "returned",
              event |-> st.event, log |-> st.log]

\* ------------------------------------------------------------------------
\* Dispatch with handlers that call back into Event
\* ------------------------------------------------------------------------

\* Handlers that call Event from inside the dispatch of event `name`:
\*   hPrepend      Event.on(A, name, h1, null, false)
\*   hAppend       Event.on(A, name, h2)
\*   hDetach       Event.off(B, name)
\*   hStopReenter  event.handled = true; Event.trigger(event.sender, 'f', event)
LiveFunctions == {"hPrepend", "hAppend", "hDetach", "hStopReenter"}

\* The dispatch state ds: the registry, the array the running forEach
\* iterates (arr) and whether it still is the array this._events[name]
\* (alias), the event record, the flags of the loop, the calls of the pass
\* and the passes done.  Array.prototype.push and unshift change the array
\* in place, so a forEach over this._events[name] sees them; off assigns a
\* new array to this._events[name] and the forEach goes on over the old one.
withRegistry(ds, ev2, name, reassigned) ==
    [ds EXCEPT !.events = ev2,
               !.alias = ds.alias /\ ~reassigned,
               !.arr = IF ds.alias /\ ~reassigned THEN ev2[name] ELSE ds.arr]

\* The one element of a singleton set.  Results that are used more than
\* once below are bound as `x \in {e}`, which evaluates e once.
Only(S) == CHOOSE x \in S : TRUE

\* `item[1].callback.call(item[1].context, event)` for these handlers.
callLive(fn, name, ds) ==
    CASE fn = "hPrepend" ->
            withRegistry(ds, on(ds.events, "A", name, Fn("h1"), Undefined,
                                "false").events, name, FALSE)
      [] fn = "hAppend" ->
            withRegistry(ds, on(ds.events, "A", name, Fn("h2"), Undefined,
                                Undefined).events, name, FALSE)
      [] fn = "hDetach" ->
            withRegistry(ds, off(ds.events, "B", name, NullHandler).events,
                         name, TRUE)
      [] fn = "hStopReenter" ->
            Only({[ds EXCEPT !.event = r.event, !.threw = r.outcome = "threw"] :
                  r \in {trigger(ds.events, ds.event.sender, "f",
                                 [ds.event EXCEPT !.handled = TRUE])}})
      [] OTHER ->
            Only({[ds EXCEPT !.event = r.event, !.threw = r.threw] :
                  r \in {callHandler(fn, ds.event)}})

\* The body of the forEach callback for the binding at index k, when it is
\* not skipped: set event.data, call the handler, read event.handled.
invokeLive(item, k, name, ds) ==
    IF item.handler.form = "null"
    THEN [ds EXCEPT !.event.data = item.data, !.threw = TRUE]
    ELSE Only({[d2 EXCEPT
                  !.isHandled = IF d2.threw THEN ds.isHandled
                                ELSE handledAfter(d2.event),
                  !.calls = Append(ds.calls, [index |-> k, item |-> item])] :
               d2 \in {callLive(item.handler.callback, name,
                                [ds EXCEPT !.event.data = item.data])}})

\* Array.prototype.forEach: the length is read once, before the first
\* call; each index below it is read from the array when it is reached.
RECURSIVE forEachLive(_, _, _, _, _)
forEachLive(k, len, cls, name, ds) ==
    IF k > len \/ ds.threw THEN ds
    ELSE IF ds.isHandled \/ ~matches(ds.arr[k], cls)
    THEN forEachLive(k + 1, len, cls, name, ds)
    ELSE Only({forEachLive(k + 1, len, cls, name, d) :
               d \in {invokeLive(ds.arr[k], k, name, ds)}})

\* The `while (true)` loop of trigger; each pass reads this._events[name]
\* anew.  A pass is recorded with the list it began with and its calls.
RECURSIVE walkLive(_, _, _)
walkLive(cls, name, ds) ==
    Only({IF d2.threw \/ d2.isHandled \/ getPrototypeOf(cls) = Null THEN d2
          ELSE walkLive(getPrototypeOf(cls), name, d2) :
          d2 \in {[d1 EXCEPT !.passes = Append(ds.passes,
                                               [level |-> cls,
                                                start |-> ds.events[name],
                                                calls |-> d1.calls])] :
                  d1 \in {forEachLive(1, Len(ds.events[name]), cls, name,
                                      [ds EXCEPT !.arr = ds.events[name],
                                                 !.alias = TRUE,
                                                 !.isHandled = FALSE,
                                                 !.calls = << >>])}}})

\* Event.trigger(cls, name) with handlers that may call back into Event.
triggerLive(ev, target, name) ==
    IF ~HasList(ev, name)
    THEN [outcome |-> "noList", events |-> ev, event |-> NoEvent,
          passes |-> << >>]
    ELSE Only({[outcome |-> IF ds.threw THEN "threw" ELSE "returned",
                events |-> ds.events, event |-> ds.event,
                passes |-> ds.passes] :
               ds \in {walkLive(startClass(target), name,
                                [events |-> ev, arr |-> << >>,
                                 alias |-> FALSE,
                                 event |-> withSender(resetEvent(NewEvent, name),
                                                      target),
                                 isHandled |-> FALSE, threw |-> FALSE,
                                 calls |-> << >>, passes |-> << >>])}})

\* ------------------------------------------------------------------------
\* The state machine: callers of the four static operations
\* ------------------------------------------------------------------------

\* Handlers, data and isAppend arguments the callers pass.
RawHandlers == {Fn("h1"), Fn("h2"), Fn("hStop"), NullHandler}
DataArgs == {"d1"}
AppendArgs == {Undefined, "false"}

\* Event arguments of trigger: none, a new record whose sender the caller
\* has set, and a record left over from a trigger of "f" that ended handled.
EventArgs ==
    {NoEvent, [NewEvent EXCEPT !.sender = Instance("D")],
     [NewEvent EXCEPT !.name = "f", !.data = "d1", !.handled = TRUE]}

\* Number of bindings in the whole registry.
RECURSIVE SumLen(_, _)
SumLen(ev, names) ==
    IF names = {} THEN 0
    ELSE LET n == CHOOSE x \in names : TRUE
         IN  Len(ev[n]) + SumLen(ev, names \ {n})

TotalBindings(ev) == SumLen(ev, DOMAIN ev)

\* Event._events = {}
Init ==
    /\ events = << >>
    /\ last = [op |-> "init"]

DoOn(c, n, h, d, a) ==
    LET r == on(events, c, n, h, d, a)
    IN  /\ TotalBindings(r.events) <= MaxBindings
        /\ events' = r.events
        /\ last' = [op |-> "on", cls |-> c, name |-> n, handler |-> h,
                    data |-> d, isAppend |-> a, before |-> events,
                    threw |-> r.threw]

On ==
    \E c \in Classes, n \in EventNames, h \in RawHandlers,
       d \in DataArgs, a \in AppendArgs : DoOn(c, n, h, d, a)

Off ==
    \E c \in Classes, n \in EventNames, h \in RawHandlers :
        LET r == off(events, c, n, h)
        IN  /\ events' = r.events
            /\ last' = [op |-> "off", cls |-> c, name |-> n, handler |-> h,
                        before |-> events, threw |-> r.threw, ret |-> r.ret]

HasHandlers ==
    \E c \in Classes, n \in EventNames :
        /\ events' = events
        /\ last' = [op |-> "hasHandlers", cls |-> c, name |-> n,
                    before |-> events, ret |-> hasHandlers(events, c, n)]

DoTrigger(t, n, e) ==
    LET r == trigger(events, t, n, e)
    IN  /\ events' = events
        /\ last' = [op |-> "trigger", target |-> t, name |-> n,
                    eventArg |-> e, before |-> events,
                    outcome |-> r.outcome, event |-> r.event,
                    log |-> r.log]

Trigger ==
    \E t \in Targets, n \in EventNames, e \in EventArgs : DoTrigger(t, n, e)

Next == On \/ Off \/ HasHandlers \/ Trigger

Spec == Init /\ [][Next]_vars

\* Callers that attach in append mode only (isAppend left out).
OnAppend ==
    \E c \in Classes, n \in EventNames, h \in RawHandlers, d \in DataArgs :
        DoOn(c, n, h, d, Undefined)

NextAppend == OnAppend \/ Off \/ HasHandlers

SpecAppend == Init /\ [][NextAppend]_vars

\* Callers that attach one handler with different data arguments: none,
\* the empty string, and two other values.
DataValues == {Undefined, "", "d1", "d2"}

DataOn ==
    \E c \in {"A", "B"}, d \in DataValues, a \in AppendArgs :
        DoOn(c, "e", Fn("h1"), d, a)

DataTrigger == \E c \in {"A", "B"} : DoTrigger(Instance(c), "e", NoEvent)

NextData == DataOn \/ DataTrigger

SpecData == Init /\ [][NextData]_vars

\* Callers that attach a handler that returns and a handler that throws,
\* and trigger the event on instances.
ThrowOn ==
    \E c \in {"A", "B"}, h \in {Fn("h1"), Fn("hThrow")}, a \in AppendArgs :
        DoOn(c, "e", h, "d1", a)

ThrowTrigger ==
    \E c \in {"A", "B", "C"} : DoTrigger(Instance(c), "e", NoEvent)

NextThrow == ThrowOn \/ ThrowTrigger

SpecThrow == Init /\ [][NextThrow]_vars

\* Callers of normalizeHandler: every kind of value as handler, with and
\* without a context.
PairElems ==
    {Instance("A"), ClassRef("B"), FnValue("h1"), NumberValue("7"),
     StringValue("A"), StringValue("B"), NoObject}

NormalizeInputs ==
    {NullHandler, OtherValue, PlainValue("7"), PlainValue("true"),
     PlainValue("{}"), Falsy("0"), Falsy("false"), Falsy("NaN"),
     MethodName("on"), MethodName("run")}
    \cup {Fn(f) : f \in {"h1", "h2"}}
    \cup {Normalized(Null, f) : f \in {"h1", Undefined}}
    \cup {ArrayOf(<<a, b>>) : a \in PairElems, b \in PairElems}
    \cup {ArrayOf(<<a>>) : a \in PairElems}
    \cup {ArrayOf(<<a, a, a>>) : a \in PairElems}

Contexts == <<Undefined, Null, "ctx">>

Normalize ==
    \E h \in NormalizeInputs, i \in DOMAIN Contexts :
        LET r == normalizeHandler(h, orNull(Contexts[i]))
        IN  /\ events' = events
            /\ last' = [op |-> "normalizeHandler", handler |-> h,
                        context |-> Contexts[i], threw |-> r.threw,
                        result |-> r.handler]

NextNormalize == Normalize

SpecNormalize == Init /\ [][NextNormalize]_vars

\* Callers that use two event names, so that a list can exist for one name
\* and not for the other.
TwoNames == {"e", "f"}

NamesOn ==
    \E c \in {"A", "B"}, n \in TwoNames, a \in AppendArgs :
        DoOn(c, n, Fn("h1"), "d1", a)

NamesTrigger ==
    \E c \in {"A", "B"}, n \in TwoNames, e \in EventArgs :
        DoTrigger(Instance(c), n, e)

NextNames == NamesOn \/ NamesTrigger

SpecNames == Init /\ [][NextNames]_vars

\* The loops of trigger and hasHandlers taken one pass at a time.  While a
\* call is in its loop (op = "walking") nothing else runs: the handlers
\* attached here return without calling back into Event.  `levels` lists
\* the values cls has taken in the loop so far.
WalkOn ==
    /\ last.op # "walking"
    /\ \E c \in {"A", "B", "C"}, h \in {Fn("h1"), Fn("hStop")} :
           DoOn(c, "e", h, "d1", Undefined)

TriggerBegin ==
    /\ last.op # "walking"
    /\ events' = events
    /\ \E t \in Targets :
           IF ~HasList(events, "e")
           THEN last' = [op |-> "walked", call |-> "trigger", target |-> t,
                         levels |-> << >>, outcome |-> "noList"]
           ELSE last' = [op |-> "walking", call |-> "trigger", target |-> t,
                         cls |-> startClass(t), levels |-> << >>,
                         st |-> [event |-> withSender(resetEvent(NewEvent, "e"), t),
                                 threw |-> FALSE, isHandled |-> FALSE,
                                 log |-> << >>]]

TriggerStep ==
    /\ last.op = "walking"
    /\ last.call = "trigger"
    /\ events' = events
    /\ LET s2 == walkLevel(events["e"], last.cls, last.st)
           seen == Append(last.levels, last.cls)
       IN  IF walkDone(last.cls, s2)
           THEN last' = [op |-> "walked", call |-> "trigger",
                         target |-> last.target, levels |-> seen,
                         outcome |-> IF s2.isHandled THEN "handled"
                                     ELSE "noParent"]
           ELSE last' = [last EXCEPT !.cls = getPrototypeOf(last.cls),
                                     !.levels = seen, !.st = s2]

HasHandlersBegin ==
    /\ last.op # "walking"
    /\ events' = events
    /\ \E c \in Classes :
           IF ~HasList(events, "e")
           THEN last' = [op |-> "walked", call |-> "hasHandlers",
                         target |-> ClassRef(c), levels |-> << >>,
                         outcome |-> "noList"]
           ELSE last' = [op |-> "walking", call |-> "hasHandlers",
                         target |-> ClassRef(c), cls |-> c, levels |-> << >>]

HasHandlersStep ==
    /\ last.op = "walking"
    /\ last.call = "hasHandlers"
    /\ events' = events
    /\ LET seen == Append(last.levels, last.cls)
       IN  IF findClass(events["e"], last.cls)
           THEN last' = [op |-> "walked", call |-> "hasHandlers",
                         target |-> last.target, levels |-> seen,
                         outcome |-> "found"]
           ELSE IF getPrototypeOf(last.cls) = Null
           THEN last' = [op |-> "walked", call |-> "hasHandlers",
                         target |-> last.target, levels |-> seen,
                         outcome |-> "noParent"]
           ELSE last' = [last EXCEPT !.cls = getPrototypeOf(last.cls),
                                     !.levels = seen]

NextWalk ==
    WalkOn \/ TriggerBegin \/ TriggerStep \/ HasHandlersBegin \/ HasHandlersStep

\* A call that is in its loop goes on running: each pass is taken.
SpecWalk ==
    Init /\ [][NextWalk]_vars /\ WF_vars(TriggerStep) /\ WF_vars(HasHandlersStep)

\* A trigger whose handlers may change the registry.  Handlers that attach
\* make the lists grow with every trigger; MaxLive caps the registry.
MaxLive == 2 * MaxBindings

DoTriggerLive(t, n) ==
    \E r \in {triggerLive(events, t, n)} :
        /\ TotalBindings(r.events) <= MaxLive
        /\ events' = r.events
        /\ last' = [op |-> "trigger", target |-> t, name |-> n,
                    before |-> events, outcome |-> r.outcome,
                    event |-> r.event, passes |-> r.passes]

\* Callers that attach handlers which attach and detach during dispatch.
MutateOn ==
    \E c \in {"A", "B"}, a \in AppendArgs,
       h \in {Fn("h1"), Fn("hPrepend"), Fn("hAppend"), Fn("hDetach")} :
        DoOn(c, "e", h, "d1", a)

MutateTrigger == \E c \in {"A", "B"} : DoTriggerLive(Instance(c), "e")

NextMutate == MutateOn \/ MutateTrigger

SpecMutate == Init /\ [][NextMutate]_vars

\* Callers that attach, to 'e', a handler which sets handled and triggers
\* 'f' with the record it received, and plain handlers to 'f'.
ReenterOn ==
    \/ \E c \in {"A", "B"}, h \in {Fn("h1"), Fn("hStopReenter")} :
           DoOn(c, "e", h, "d1", Undefined)
    \/ \E c \in {"A", "B"}, h \in {Fn("h1"), Fn("hStop")} :
           DoOn(c, "f", h, "d1", Undefined)

ReenterTrigger == \E c \in {"A", "B"} : DoTriggerLive(Instance(c), "e")

NextReenter == ReenterOn \/ ReenterTrigger

SpecReenter == Init /\ [][NextReenter]_vars

\* ------------------------------------------------------------------------
\* Vocabulary of the properties
\* ------------------------------------------------------------------------

\* The type chain of a class: the class, its parent, and so on to the root.
RECURSIVE TypeChain(_)
TypeChain(c) == IF c = Null THEN << >> ELSE <<c>> \o TypeChain(Extends(c))

AncestorsOrSelf(c) == {TypeChain(c)[i] : i \in 1..Len(TypeChain(c))}

\* Position of class a in the chain of t (1 = t itself); 0 if a is none of
\* t's ancestors.
LevelOf(t, a) ==
    IF a \in AncestorsOrSelf(t)
    THEN CHOOSE i \in 1..Len(TypeChain(t)) : TypeChain(t)[i] = a
    ELSE 0

\* Indices of the bindings of list that a dispatch for type t concerns.
Concerned(list, t) == {i \in 1..Len(list) : list[i].cls \in AncestorsOrSelf(t)}

\* The indices of the bindings invoked, in the order of invocation.
Invoked(log) == [k \in 1..Len(log) |-> log[k].index]

\* A trigger that ran the dispatch to its end: it did not raise and no
\* handler set handled.
QuietTrigger ==
    /\ last.op = "trigger"
    /\ last.outcome = "returned"
    /\ \A k \in 1..Len(last.log) : ~last.log[k].handled

\* ------------------------------------------------------------------------
\* Properties
\* ------------------------------------------------------------------------

\* C1: a trigger on an instance of type T in which no handler sets handled
\* and nothing throws invokes exactly the bindings of the event's list that
\* are bound to T or to an ancestor of T, each exactly once; bindings of
\* subtypes of T and of unrelated types are not invoked.
C1_FanOutUpwardOnly ==
    (QuietTrigger /\ last.target.kind = "instance") =>
        LET list == events[last.name]
            want == Concerned(list, last.target.cls)
        IN  /\ \A i \in want :
                 Cardinality({k \in 1..Len(last.log) : last.log[k].index = i}) = 1
            /\ \A k \in 1..Len(last.log) :
                 /\ last.log[k].index \in want
                 /\ last.log[k].item = list[last.log[k].index]

\* C1 witness: a trigger on an instance of B, with a binding on the ancestor
\* A and one on the subtype C in the list, invoked the former only.
C1_Witness ==
    /\ QuietTrigger
    /\ last.target = Instance("B")
    /\ \E i, j \in 1..Len(events[last.name]) :
          /\ events[last.name][i].cls = "A"
          /\ events[last.name][j].cls = "C"
          /\ Invoked(last.log) = <<i>>

\* C2: in one trigger, a handler that leaves handled = true is the last
\* handler invoked.
C2_HandledStopsWalk ==
    last.op = "trigger" =>
        \A k \in 1..Len(last.log) :
            last.log[k].handled => k = Len(last.log)

\* C2 witness: a handler bound to B set handled, and the binding of the
\* ancestor A that the dispatch concerns was not invoked.
C2_Witness ==
    /\ last.op = "trigger"
    /\ last.target = Instance("B")
    /\ Len(last.log) = 1
    /\ last.log[1].handled
    /\ last.log[1].item.cls = "B"
    /\ \E i \in Concerned(events[last.name], "B") :
          events[last.name][i].cls = "A"

\* C3: the handlers of one trigger run level by level up the type chain,
\* and within a level in list order.
C3_HierarchyThenListOrder ==
    (last.op = "trigger" /\ last.target.kind = "instance") =>
        \A k, m \in 1..Len(last.log) :
            k < m =>
                LET lk == LevelOf(last.target.cls, last.log[k].item.cls)
                    lm == LevelOf(last.target.cls, last.log[m].item.cls)
                IN  /\ lk >= 1
                    /\ lk <= lm
                    /\ lk = lm => last.log[k].index < last.log[m].index

\* C3 witness: the binding of the own type was invoked before the binding
\* of the parent type although it comes later in the list.
C3_Witness ==
    /\ last.op = "trigger"
    /\ last.target = Instance("C")
    /\ Invoked(last.log) = <<2, 1>>
    /\ events[last.name][1].cls = "B"
    /\ events[last.name][2].cls = "C"

\* Every binding of the registry carries a handler (none was attached with
\* a null handler).
AllBound(ev) ==
    \A n \in DOMAIN ev :
        \A i \in 1..Len(ev[n]) : ev[n][i].handler.form # "null"

\* The bindings detach(name, cls, handler) is to remove: those bound to cls
\* whose callback is the handler's, or all those bound to cls when the
\* handler is null.
ToDetach(item, cls, handler) ==
    /\ item.cls = cls
    /\ \/ handler.form = "null"
       \/ /\ item.handler.form # "null"
          /\ item.handler.callback
                = normalizeHandler(handler, Null).handler.callback

\* C4: detach removes exactly the bindings of the given type (with the
\* given callback, if a handler is given) and keeps every other binding in
\* its original relative order.
C4_DetachRemovesExactly ==
    (/\ last.op = "off"
     /\ ~last.threw
     /\ HasList(last.before, last.name)
     /\ AllBound(last.before)) =>
        events[last.name]
            = SelectSeq(last.before[last.name],
                        LAMBDA item : ~ToDetach(item, last.cls, last.handler))

\* C5: detaching, from a type that has a binding, a handler that no binding
\* of the list carries returns false and leaves the registry as it was.
C5_DetachUnknownHandlerNoChange ==
    (/\ last.op = "off"
     /\ ~last.threw
     /\ HasList(last.before, last.name)
     /\ AllBound(last.before)
     /\ last.handler.form # "null"
     /\ findClass(last.before[last.name], last.cls)
     /\ \A i \in 1..Len(last.before[last.name]) :
           ~ToDetach(last.before[last.name][i],
                     last.before[last.name][i].cls, last.handler)) =>
        /\ last.ret = FALSE
        /\ events = last.before

\* C6: a trigger on a bare type handle T invokes the same bindings, in the
\* same order, as a trigger on an instance of T.
C6_TypeHandleTargetWalksFromT ==
    (last.op = "trigger" /\ last.target.kind = "class"
     /\ AllBound(last.before)) =>
        Invoked(last.log)
            = Invoked(trigger(last.before, Instance(last.target.cls),
                              last.name, last.eventArg).log)

\* The sender of the event record the caller passed (null if none passed).
SenderArg == IF last.eventArg.kind = "null" THEN NoObject
             ELSE last.eventArg.sender

\* C7: after a trigger that found a list, the record's sender is the target
\* if the target is an instance and no sender was supplied, else it is the
\* supplied sender (null when none was supplied).
C7_SenderSetOnlyForInstance ==
    (last.op = "trigger" /\ last.outcome # "noList"
     /\ AllBound(last.before)) =>
        last.event.sender
            = IF last.target.kind = "instance" /\ SenderArg = NoObject
              THEN last.target ELSE SenderArg

\* No list holds two bindings of the same type.
OnePerType ==
    \A n \in DOMAIN events :
        \A i, j \in 1..Len(events[n]) :
            events[n][i].cls = events[n][j].cls => i = j

\* C8: an append-mode attach to a list that already holds a binding of the
\* type changes nothing; with append-mode attaches and detaches only, no
\* list ever holds two bindings of one type.
C8_AppendNoDuplicate ==
    /\ (/\ last.op = "on"
        /\ appendMode(last.isAppend)
        /\ findClass(ListOf(last.before, last.name), last.cls))
           => events = last.before
    /\ OnePerType

\* C8 witness: an append-mode attach of another handler to a type already
\* bound left the list as it was.
C8_Witness ==
    /\ last.op = "on"
    /\ ~last.threw
    /\ last.cls = "A"
    /\ last.handler = Fn("h2")
    /\ events = last.before
    /\ events[last.name] = <<Binding("A", Normalized(Null, "h1"), "d1")>>

\* C9: an attach with isAppend = false puts the new binding in front of the
\* list whatever the list holds; a trigger on an instance of the type then
\* invokes the front binding first.
C9_PrependAlwaysInserts ==
    /\ (last.op = "on" /\ ~appendMode(last.isAppend) /\ ~last.threw) =>
          events[last.name]
            = <<Binding(last.cls,
                        normalizeHandler(last.handler, Null).handler,
                        orNull(last.data))>>
              \o ListOf(last.before, last.name)
    /\ (/\ QuietTrigger
        /\ last.target.kind = "instance"
        /\ Len(events[last.name]) >= 2
        /\ events[last.name][1].cls = last.target.cls
        /\ events[last.name][2].cls = last.target.cls) =>
          /\ Len(last.log) >= 2
          /\ Invoked(last.log)[1] = 1
          /\ Invoked(last.log)[2] = 2

\* C9 witness: h2 was attached in front of h1 on the same type.
C9_Witness ==
    /\ last.op = "on"
    /\ last.isAppend = "false"
    /\ last.handler = Fn("h2")
    /\ ListOf(last.before, last.name)
          = <<Binding("A", Normalized(Null, "h1"), "d1")>>
    /\ events[last.name] = <<Binding("A", Normalized(Null, "h2"), "d1"),
                             Binding("A", Normalized(Null, "h1"), "d1")>>

\* C10: hasHandlers is true exactly when a list exists for the name and
\* holds a binding of the type or of one of its ancestors, and it leaves
\* the registry unchanged.
C10_HasHandlersWalksChain ==
    last.op = "hasHandlers" =>
        /\ last.ret = (/\ HasList(last.before, last.name)
                       /\ Concerned(last.before[last.name], last.cls) # {})
        /\ events = last.before

\* C10 witness: hasHandlers on C was true with bindings on the ancestor A
\* only.
C10_Witness ==
    /\ last.op = "hasHandlers"
    /\ last.cls = "C"
    /\ last.ret = TRUE
    /\ \A i \in 1..Len(events[last.name]) : events[last.name][i].cls = "A"

\* The list before a detach holds the binding (cls, handler) that an
\* attach of that handler to that type stores.
DetachOfAttached ==
    /\ last.op = "off"
    /\ last.handler.form # "null"
    /\ HasList(last.before, last.name)
    /\ \E i \in 1..Len(last.before[last.name]) :
          last.before[last.name][i]
            = Binding(last.cls, normalizeHandler(last.handler, Null).handler,
                      last.before[last.name][i].data)

\* C11: detaching a handler from the type it is attached to removes that
\* binding and returns true; if then no ancestor of the type has a binding
\* either, hasHandlers for the type is false.
C11_AttachDetachUndone ==
    DetachOfAttached =>
        /\ ~last.threw
        /\ last.ret = TRUE
        /\ \A i \in 1..Len(events[last.name]) :
              ~ToDetach(events[last.name][i], last.cls, last.handler)
        /\ (\A i \in 1..Len(events[last.name]) :
               events[last.name][i].cls \notin AncestorsOrSelf(last.cls) \ {last.cls})
              => ~hasHandlers(events, last.cls, last.name)

\* C12: a trigger that finds a list hands every handler a record whose name
\* is the triggered name, the first handler sees handled = false whatever
\* the record held before, and the same bindings are invoked as with no
\* record supplied.
C12_ResetBeforeDispatch ==
    (last.op = "trigger" /\ last.outcome # "noList") =>
        /\ \A k \in 1..Len(last.log) : last.log[k].seen.name = last.name
        /\ Len(last.log) >= 1 => ~last.log[1].seen.handled
        /\ last.event.name = last.name
        /\ Invoked(last.log)
             = Invoked(trigger(last.before, last.target, last.name, NoEvent).log)

\* C12 witness: a record left handled by a trigger of "f" was passed to a
\* trigger of "e", and the first handler saw it reset.
C12_Witness ==
    /\ last.op = "trigger"
    /\ last.eventArg.kind = "Event"
    /\ last.eventArg.handled
    /\ last.eventArg.name = "f"
    /\ last.name = "e"
    /\ Len(last.log) = 2
    /\ ~last.log[1].seen.handled
    /\ last.log[2].seen.name = "e"

\* The data a caller gave with an attach: null when it gave none.
GivenData(d) == IF d = Undefined THEN Null ELSE d

\* C13: the binding an attach adds carries the data the caller gave (null
\* when none was given), and every handler invocation sees the data of the
\* very binding invoked.
C13_HandlerSeesBindingData ==
    /\ (/\ last.op = "on"
        /\ ~last.threw
        /\ Len(events[last.name]) > Len(ListOf(last.before, last.name))) =>
          \E i \in 1..Len(events[last.name]) :
              events[last.name][i]
                = Binding(last.cls, normalizeHandler(last.handler, Null).handler,
                          GivenData(last.data))
    /\ last.op = "trigger" =>
          \A k \in 1..Len(last.log) :
              /\ last.log[k].item = last.before[last.name][last.log[k].index]
              /\ last.log[k].seen.data = last.log[k].item.data

\* C14: when a handler throws during trigger, trigger ends by throwing, the
\* throwing call is the last call of that trigger (no later binding of the
\* level and no binding of an ancestor is invoked), and the registry is as
\* it was; trigger throws only when a handler did.
C14_ThrowAbortsDispatch ==
    last.op = "trigger" =>
        /\ (last.outcome = "threw") <=>
               (\E k \in 1..Len(last.log) : last.log[k].threw)
        /\ \A k \in 1..Len(last.log) :
               last.log[k].threw => k = Len(last.log)
        /\ events = last.before

\* A trigger in which the first of two concerned bindings throws: the
\* second, of the same level or of an ancestor, is not invoked.
C14_Witness ==
    /\ last.op = "trigger"
    /\ last.outcome = "threw"
    /\ Len(last.log) = 1
    /\ last.log[1].index = 1
    /\ Cardinality(Concerned(last.before[last.name], last.target.cls)) = 2
    /\ events = last.before

\* The forms of handler the normalizer accepts: an object with callback and
\* context, a [callable, object] pair, a [type name, method name] pair, a
\* method name, a callable.
AcceptedForm(h) ==
    \/ h.form \in {"norm", "pairFnObj", "string", "fn"}
    \/ /\ h.form = "array"
       /\ Len(h.elems) = 2
       /\ \/ isFunction(h.elems[1]) /\ isObject(h.elems[2])
          \/ isString(h.elems[1]) /\ isString(h.elems[2])

\* C15: normalizeHandler throws for every input that is neither null nor
\* undefined and has none of the accepted forms.
C15_MalformedHandlerThrows ==
    (/\ last.op = "normalizeHandler"
     /\ last.handler.form # "null"
     /\ ~AcceptedForm(last.handler)) => last.threw

\* C16: a trigger on an event name without a binding list returns without
\* an exception, invokes no handler, and leaves the registry and the event
\* record the caller passed as they were.
C16_NoListNoOp ==
    (last.op = "trigger" /\ ~HasList(last.before, last.name)) =>
        /\ last.outcome = "noList"
        /\ last.log = << >>
        /\ events = last.before
        /\ last.event = last.eventArg

\* A trigger of 'e' with a record that arrives handled and named 'f', when
\* only 'f' has a list: the record comes back untouched.
C16_Witness ==
    /\ last.op = "trigger"
    /\ last.name = "e"
    /\ ~HasList(last.before, "e")
    /\ HasList(last.before, "f")
    /\ last.eventArg.kind = "Event"
    /\ last.eventArg.handled
    /\ last.event.handled
    /\ last.event.name = "f"
    /\ last.log = << >>

\* C18: every binding in the registry carries a normalized handler whose
\* callback is a function, and a trigger in which no handler throws does
\* not throw.
C18_StoredHandlersCallable ==
    /\ \A n \in DOMAIN events :
           \A i \in 1..Len(events[n]) :
               /\ events[n][i].handler.form = "norm"
               /\ events[n][i].handler.callback \in Functions
    /\ (/\ last.op = "trigger"
        /\ \A k \in 1..Len(last.log) : ~last.log[k].threw)
           => last.outcome # "threw"

\* The levels a walk has visited are pairwise different.
NoLevelTwice ==
    last.op \in {"walking", "walked"} =>
        \A i, j \in 1..Len(last.levels) :
            last.levels[i] = last.levels[j] => i = j

\* A walk that has ended ended for one of the reasons of the loop: no list,
\* a level without a parent, handled (trigger) or a binding found
\* (hasHandlers); after "noParent" the last level visited has no prototype.
EndedForReason ==
    last.op = "walked" =>
        /\ last.outcome \in {"noList", "noParent", "handled", "found"}
        /\ last.outcome = "handled" => last.call = "trigger"
        /\ last.outcome = "found" => last.call = "hasHandlers"
        /\ last.outcome = "noParent" =>
               last.levels[Len(last.levels)] = "ObjectPrototype"

\* C20: with handlers that return and do not call trigger, every trigger
\* and every hasHandlers that has entered its loop leaves it; the loop
\* visits no level twice and ends at a level without parent, or earlier
\* when handled became true (trigger) or a binding was found (hasHandlers).
C20_WalkTerminates ==
    /\ [](NoLevelTwice /\ EndedForReason)
    /\ (last.op = "walking") ~> (last.op = "walked")

\* A trigger on an instance of C that went through all five levels of the
\* chain with a binding in the list.
C20_Witness ==
    /\ last.op = "walked"
    /\ last.call = "trigger"
    /\ last.levels = <<"C", "B", "A", "FunctionPrototype", "ObjectPrototype">>
    /\ last.outcome = "noParent"
    /\ Len(events["e"]) = 2

\* How often the value b occurs in the sequence q.
Count(q, b) == Cardinality({i \in 1..Len(q) : q[i] = b})

CalledItems(pass) == [k \in 1..Len(pass.calls) |-> pass.calls[k].item]

\* C17: in every pass of a trigger whose handlers attach or detach on the
\* event being dispatched (and neither throw nor set handled), each binding
\* of the level that was in the list when the pass began is invoked exactly
\* as often as it occurred in that list: none is skipped, none is invoked
\* once more.
C17_MutationKeepsPass ==
    (last.op = "trigger" /\ last.outcome = "returned") =>
        \A p \in 1..Len(last.passes) :
            LET pass == last.passes[p]
            IN  \A j \in 1..Len(pass.start) :
                    pass.start[j].cls = pass.level =>
                        Count(CalledItems(pass), pass.start[j])
                          = Count(pass.start, pass.start[j])

\* Handlers that assign event.handled = true.
SetsHandled == {"hStop", "hStopReenter"}

\* C19: when a handler invoked by a trigger has set handled, handled is
\* true in the record when that trigger returns, also when the handler
\* went on to trigger another event with the same record.
C19_HandledStaysSet ==
    (/\ last.op = "trigger"
     /\ last.outcome = "returned"
     /\ \E p \in 1..Len(last.passes) :
            \E k \in 1..Len(last.passes[p].calls) :
                last.passes[p].calls[k].item.handler.callback \in SetsHandled)
        => last.event.handled

====
